---------------------------- MODULE Spec2Model ----------------------------
(***************************************************************************)
(* Model of src/src/main.py: the EC2 audit and self-analysis batch job.    *)
(*                                                                         *)
(* Representation.  A Python str that the code searches or formats is a    *)
(* sequence of one-character strings; a str that is only compared for      *)
(* equality is a TLA+ string.  A dict is a record; an optional key is a    *)
(* key that may be missing from the record's DOMAIN.  A value that may be  *)
(* None is a sequence of length at most one (None is <<>>).  A provider    *)
(* call either answers or raises botocore's ClientError, and the answer of *)
(* every call is an input of the operator that models the calling          *)
(* function.                                                               *)
(***************************************************************************)
EXTENDS Integers, Sequences, FiniteSets, TLC

VARIABLES
    pc,            \* position of main()
    clock,         \* index of the current instant in Instants
    instances,     \* main: instances
    sg_answers,    \* answers the provider gave to the rule queries of the run
    audit_report,  \* main: audit_report
    uploads,       \* values returned by the upload_to_s3 calls, in call order
    log_analysis,  \* main: log_analysis
    final_report,  \* main: final_report
    calls,         \* provider calls made so far, in order
    stdout,        \* records written by logger, in order
    exit_code,     \* process exit status once the process has ended
    fn_in,         \* arguments and provider answers of a single function call
    fn_out         \* what that call returned

mainVars == <<pc, clock, instances, sg_answers, audit_report, uploads,
              log_analysis, final_report, calls, stdout, exit_code>>
fnVars == <<fn_in, fn_out>>
vars == <<pc, clock, instances, sg_answers, audit_report, uploads,
          log_analysis, final_report, calls, stdout, exit_code, fn_in, fn_out>>

---------------------------------------------------------------------------
(* Bounds of the model. *)
MaxRules == 2
MaxGroups == 2
MaxDevices == 2
MaxInstances == 2
MaxEvents == 2

---------------------------------------------------------------------------
(* Python values. *)

None == <<>>
Some(v) == <<v>>

HasKey(d, k) == k \in DOMAIN d

\* d.get(k, default)
Get(d, k, default) == IF k \in DOMAIN d THEN d[k] ELSE default

\* needle in hay, for two str
Contains(needle, hay) ==
    \E i \in 1..(Len(hay) - Len(needle) + 1) :
        SubSeq(hay, i, i + Len(needle) - 1) = needle

\* the sequences over S of length at most n
SeqsUpTo(S, n) == UNION {[1..k -> S] : k \in 0..n}

\* an outcome of a provider call: an answer, or ClientError raised
ClientError == [raised |-> "ClientError"]
Answer(r) == [raised |-> "no", response |-> r]
Raised(o) == o.raised # "no"

\* the texts the code logs: the fixed part of each message, without the
\* values formatted into it and without pictographs
msg_initializing == <<"I","n","i","t","i","a","l","i","z","i","n","g"," ","A","W","S"," ","c","l","i","e","n","t","s"," ","i","n"," ","r","e","g","i","o","n",":"," ">>
msg_fetching == <<"F","e","t","c","h","i","n","g"," ","E","C","2"," ","i","n","s","t","a","n","c","e","s",".",".",".">>
msg_found_instances == <<"F","o","u","n","d"," ","E","C","2"," ","i","n","s","t","a","n","c","e","s",".">>
msg_error_fetching == <<"E","r","r","o","r"," ","f","e","t","c","h","i","n","g"," ","E","C","2"," ","i","n","s","t","a","n","c","e","s",":"," ">>
msg_error_checking_sg == <<"E","r","r","o","r"," ","c","h","e","c","k","i","n","g"," ","s","e","c","u","r","i","t","y"," ","g","r","o","u","p"," ">>
msg_generating == <<"G","e","n","e","r","a","t","i","n","g"," ","E","C","2"," ","a","u","d","i","t"," ","r","e","p","o","r","t",".",".",".">>
msg_uploaded == <<"U","p","l","o","a","d","e","d"," ","t","o"," ","S","3",":"," ">>
msg_error_uploading == <<"E","r","r","o","r"," ","u","p","l","o","a","d","i","n","g"," ","t","o"," ","S","3",":"," ">>
msg_found_stream == <<"F","o","u","n","d"," ","o","w","n"," ","l","o","g"," ","s","t","r","e","a","m",":"," ">>
msg_error_self_analysis == <<"E","r","r","o","r"," ","d","u","r","i","n","g"," ","s","e","l","f","-","a","n","a","l","y","s","i","s"," ","o","f"," ","l","o","g","s",":"," ">>
msg_starting == <<"S","t","a","r","t","i","n","g"," ","C","o","m","b","i","n","e","d"," ","A","W","S"," ","B","a","t","c","h"," ","J","o","b",":"," ","E","C","2"," ","A","u","d","i","t"," ","+"," ","S","e","l","f","-","A","n","a","l","y","s","i","s">>
msg_job_id == <<"J","o","b"," ","I","D",":"," ">>
msg_target_bucket == <<"T","a","r","g","e","t"," ","S","3"," ","B","u","c","k","e","t",":"," ">>
msg_beginning == <<"B","e","g","i","n","n","i","n","g"," ","s","e","l","f","-","a","n","a","l","y","s","i","s"," ","v","i","a"," ","C","l","o","u","d","W","a","t","c","h"," ","L","o","g","s",".",".",".">>
msg_final_summary == <<"F","I","N","A","L"," ","J","O","B"," ","S","U","M","M","A","R","Y",":"," ">>
msg_finished == <<"C","o","m","b","i","n","e","d"," ","a","u","d","i","t"," ","a","n","d"," ","s","e","l","f","-","a","n","a","l","y","s","i","s"," ","j","o","b"," ","f","i","n","i","s","h","e","d"," ","s","u","c","c","e","s","s","f","u","l","l","y",".">>

\* a logger record
LogRecord(level, message) == [levelname |-> level, message |-> message]

---------------------------------------------------------------------------
(* check_security_groups *)

UNRESTRICTED == <<"0",".","0",".","0",".","0","/","0">>

SshRdpPorts == {22, 3389}

\* the condition with the protocol test left out
RuleFlaggedAnyProtocol(rule) ==
    /\ HasKey(rule, "FromPort") /\ rule.FromPort \in SshRdpPorts
    /\ Contains(UNRESTRICTED, Get(rule, "CidrIpv4", <<>>))

\* the condition of lines 71-73 on one rule
RuleFlagged(rule) ==
    /\ HasKey(rule, "FromPort") /\ rule.FromPort \in SshRdpPorts
    /\ HasKey(rule, "IpProtocol") /\ rule.IpProtocol = "tcp"
    /\ Contains(UNRESTRICTED, Get(rule, "CidrIpv4", <<>>))

\* the dict appended at lines 74-79
SecurityIssue(sg_id, rule) ==
    [SecurityGroupId |-> sg_id,
     Port            |-> rule.FromPort,
     Protocol        |-> rule.IpProtocol,
     CIDR            |-> IF HasKey(rule, "CidrIpv4")
                         THEN Some(rule.CidrIpv4) ELSE None]

\* the inner loop, lines 70-79, over the rules of one answer
RECURSIVE RuleLoop(_, _)
RuleLoop(sg_id, rules) ==
    IF rules = <<>> THEN <<>>
    ELSE (IF RuleFlagged(Head(rules))
          THEN <<SecurityIssue(sg_id, Head(rules))>> ELSE <<>>)
         \o RuleLoop(sg_id, Tail(rules))

\* one iteration of the outer loop, lines 62-81: the issues the group adds,
\* the call it makes and what it logs; outcome is the provider's
CheckOneGroup(sg, outcome) ==
    LET sg_id == sg.GroupId
        call  == [api |-> "describe_security_group_rules", arg |-> sg_id,
                  ok |-> ~Raised(outcome)]
    IN  IF Raised(outcome)
        THEN IF outcome.raised = "ClientError"
             THEN [raised |-> "no", issues |-> <<>>, calls |-> <<call>>,
                   logs |-> <<LogRecord("ERROR", msg_error_checking_sg)>>]
             ELSE [raised |-> outcome.raised, issues |-> <<>>,
                   calls |-> <<call>>, logs |-> <<>>]
        ELSE [raised |-> "no",
              issues |-> RuleLoop(sg_id, outcome.response.SecurityGroupRules),
              calls |-> <<call>>, logs |-> <<>>]

\* the outer loop with the try around the whole loop: a failed query ends it
RECURSIVE GroupLoopEndsOnError(_, _, _)
GroupLoopEndsOnError(groups, outcomes, k) ==
    IF k > Len(groups)
    THEN [raised |-> "no", issues |-> <<>>, calls |-> <<>>, logs |-> <<>>]
    ELSE LET one == CheckOneGroup(groups[k], outcomes[k])
         IN  IF Raised(outcomes[k]) THEN one
             ELSE LET rest == GroupLoopEndsOnError(groups, outcomes, k + 1)
                  IN  [raised |-> rest.raised,
                       issues |-> one.issues \o rest.issues,
                       calls  |-> one.calls \o rest.calls,
                       logs   |-> one.logs \o rest.logs]

\* the outer loop from group k on; outcomes[k] answers the k-th query
RECURSIVE GroupLoop(_, _, _)
GroupLoop(groups, outcomes, k) ==
    IF k > Len(groups)
    THEN [raised |-> "no", issues |-> <<>>, calls |-> <<>>, logs |-> <<>>]
    ELSE LET one == CheckOneGroup(groups[k], outcomes[k])
         IN  IF one.raised # "no" THEN one
             ELSE LET rest == GroupLoop(groups, outcomes, k + 1)
                  IN  [raised |-> rest.raised,
                       issues |-> one.issues \o rest.issues,
                       calls  |-> one.calls \o rest.calls,
                       logs   |-> one.logs \o rest.logs]

\* instance.get('SecurityGroups', []), line 62
SecurityGroupsOf(instance) == Get(instance, "SecurityGroups", <<>>)

check_security_groups(instance, outcomes) ==
    LET r == GroupLoop(SecurityGroupsOf(instance), outcomes, 1)
    IN  [raised |-> r.raised, ret |-> r.issues, calls |-> r.calls,
         logs |-> r.logs]

---------------------------------------------------------------------------
(* check_instance_utilization *)

free_tier_types == {"t2.micro", "t3.micro", "t4g.micro"}

StoppedIssue(instance_id) ==
    [issue       |-> "STOPPED_INSTANCE",
     message     |-> <<"Instance is stopped but still incurring EBS storage costs">>,
     instance_id |-> instance_id]

NonFreeTierIssue(instance_id, instance_type) ==
    [issue        |-> "NON_FREE_TIER_TYPE",
     message      |-> <<"Instance type ", instance_type,
                        " may incur costs. Free tier types: ",
                        "t2.micro, t3.micro, t4g.micro">>,
     instance_id  |-> instance_id,
     current_type |-> instance_type]

\* the type test without the test of the state
check_instance_utilization_any_state(instance) ==
    LET instance_id   == instance.InstanceId
        state         == instance.State.Name
        instance_type == instance.InstanceType
        stopped == IF state = "stopped"
                      /\ Get(instance, "BlockDeviceMappings", <<>>) # <<>>
                   THEN <<StoppedIssue(instance_id)>> ELSE <<>>
        costly  == IF instance_type \notin free_tier_types
                   THEN <<NonFreeTierIssue(instance_id, instance_type)>>
                   ELSE <<>>
    IN  stopped \o costly

check_instance_utilization(instance) ==
    LET instance_id   == instance.InstanceId
        state         == instance.State.Name
        instance_type == instance.InstanceType
        stopped == IF state = "stopped"
                      /\ Get(instance, "BlockDeviceMappings", <<>>) # <<>>
                   THEN <<StoppedIssue(instance_id)>> ELSE <<>>
        costly  == IF instance_type \notin free_tier_types /\ state = "running"
                   THEN <<NonFreeTierIssue(instance_id, instance_type)>>
                   ELSE <<>>
    IN  stopped \o costly

---------------------------------------------------------------------------
(* Time: datetime.utcnow(), strftime and isoformat. *)

\* the instants the clock of a run may show, in order; epoch is time.time()
Instants ==
    <<[year |-> 2024, month |-> 1,  day |-> 5,  hour |-> 9,  minute |-> 3,
       second |-> 7, epoch |-> 1704445387],
      [year |-> 2025, month |-> 12, day |-> 31, hour |-> 23, minute |-> 59,
       second |-> 58, epoch |-> 1767225598]>>

Digits == <<"0", "1", "2", "3", "4", "5", "6", "7", "8", "9">>
Digit(d) == Digits[d + 1]

\* %02d and %04d
Pad2(n) == <<Digit((n \div 10) % 10), Digit(n % 10)>>
Pad4(n) == Pad2(n \div 100) \o Pad2(n % 100)

\* strftime('%Y%m%d-%H%M%S')
Strftime(t) ==
    Pad4(t.year) \o Pad2(t.month) \o Pad2(t.day) \o <<"-">>
    \o Pad2(t.hour) \o Pad2(t.minute) \o Pad2(t.second)

\* isoformat() of an instant with no microseconds
Isoformat(t) ==
    Pad4(t.year) \o <<"-">> \o Pad2(t.month) \o <<"-">> \o Pad2(t.day) \o <<"T">>
    \o Pad2(t.hour) \o <<":">> \o Pad2(t.minute) \o <<":">> \o Pad2(t.second)

\* datetime.fromtimestamp(t, timezone.utc).isoformat()
IsoformatUtc(t) == Isoformat(t) \o <<"+","0","0",":","0","0">>

---------------------------------------------------------------------------
(* get_ec2_instances *)

\* lines 48-50: the instances of the reservations, flattened
RECURSIVE Flatten(_)
Flatten(reservations) ==
    IF reservations = <<>> THEN <<>>
    ELSE Head(reservations).Instances \o Flatten(Tail(reservations))

\* the listing without its except clause
get_ec2_instances_uncaught(outcome) ==
    LET call == [api |-> "describe_instances", arg |-> "", ok |-> ~Raised(outcome)]
        info == LogRecord("INFO", msg_fetching)
    IN  IF Raised(outcome)
        THEN [raised |-> outcome.raised, ret |-> <<>>, calls |-> <<call>>,
              logs |-> <<info>>]
        ELSE [raised |-> "no",
              ret |-> Flatten(outcome.response.Reservations),
              calls |-> <<call>>,
              logs |-> <<info, LogRecord("INFO", msg_found_instances)>>]

get_ec2_instances(outcome) ==
    LET call == [api |-> "describe_instances", arg |-> "", ok |-> ~Raised(outcome)]
        info == LogRecord("INFO", msg_fetching)
    IN  IF Raised(outcome)
        THEN IF outcome.raised = "ClientError"
             THEN [raised |-> "no", ret |-> <<>>, calls |-> <<call>>,
                   logs |-> <<info, LogRecord("ERROR", msg_error_fetching)>>]
             ELSE [raised |-> outcome.raised, ret |-> <<>>, calls |-> <<call>>,
                   logs |-> <<info>>]
        ELSE [raised |-> "no",
              ret |-> Flatten(outcome.response.Reservations),
              calls |-> <<call>>,
              logs |-> <<info, LogRecord("INFO", msg_found_instances)>>]

---------------------------------------------------------------------------
(* generate_audit_report *)

\* lines 116-127
EmptyReport(now, n) ==
    [audit_timestamp |-> Isoformat(now),
     findings |-> [security_issues |-> <<>>, utilization_issues |-> <<>>],
     summary  |-> [total_instances |-> n,
                   instances_with_security_issues |-> 0,
                   instances_with_utilization_issues |-> 0]]

\* the counter raised by the number of issues instead of by one
AddSecurityCountingIssues(report, instance_id, issues) ==
    IF issues = <<>> THEN report
    ELSE [report EXCEPT
            !.findings.security_issues =
                Append(@, [instance_id |-> instance_id, issues |-> issues]),
            !.summary.instances_with_security_issues = @ + Len(issues)]

\* lines 134-139
AddSecurity(report, instance_id, issues) ==
    IF issues = <<>> THEN report
    ELSE [report EXCEPT
            !.findings.security_issues =
                Append(@, [instance_id |-> instance_id, issues |-> issues]),
            !.summary.instances_with_security_issues = @ + 1]

\* lines 143-148
AddUtilization(report, instance_id, issues) ==
    IF issues = <<>> THEN report
    ELSE [report EXCEPT
            !.findings.utilization_issues =
                Append(@, [instance_id |-> instance_id, issues |-> issues]),
            !.summary.instances_with_utilization_issues = @ + 1]

\* the loop of lines 129-148 from instance i on; answers[i] holds the
\* provider's outcomes for the rule queries of instance i
RECURSIVE InstanceLoop(_, _, _, _)
InstanceLoop(insts, answers, i, acc) ==
    IF i > Len(insts) THEN acc
    ELSE LET instance == insts[i]
             sec      == check_security_groups(instance, answers[i])
             util     == check_instance_utilization(instance)
         IN  IF sec.raised # "no"
             THEN [acc EXCEPT !.raised = sec.raised,
                              !.calls = @ \o sec.calls, !.logs = @ \o sec.logs]
             ELSE InstanceLoop(insts, answers, i + 1,
                    [raised |-> "no",
                     ret    |-> AddUtilization(
                                  AddSecurity(acc.ret, instance.InstanceId, sec.ret),
                                  instance.InstanceId, util),
                     calls  |-> acc.calls \o sec.calls,
                     logs   |-> acc.logs \o sec.logs])

generate_audit_report(insts, answers, now) ==
    InstanceLoop(insts, answers, 1,
        [raised |-> "no", ret |-> EmptyReport(now, Len(insts)), calls |-> <<>>,
         logs |-> <<LogRecord("INFO", msg_generating)>>])

---------------------------------------------------------------------------
(* upload_to_s3 *)

KeyPrefix == <<"a","u","d","i","t","-","r","e","p","o","r","t","s","/","e","c","2","-","a","u","d","i","t","-">>

\* line 155
ObjectKey(now, key_suffix) == KeyPrefix \o Strftime(now) \o <<"-">> \o key_suffix

\* the key returned whether or not the write succeeded
upload_to_s3_key_always(content, key_suffix, content_type, bucket_name, now, outcome) ==
    LET key  == ObjectKey(now, key_suffix)
        call == [api |-> "put_object", ok |-> ~Raised(outcome),
                 arg |-> [Bucket |-> bucket_name, Key |-> key, Body |-> content,
                          ContentType |-> content_type]]
    IN  [raised |-> "no", ret |-> Some(key), calls |-> <<call>>,
         logs |-> <<LogRecord("INFO", msg_uploaded)>>]

upload_to_s3(content, key_suffix, content_type, bucket_name, now, outcome) ==
    LET key  == ObjectKey(now, key_suffix)
        call == [api |-> "put_object", ok |-> ~Raised(outcome),
                 arg |-> [Bucket |-> bucket_name, Key |-> key, Body |-> content,
                          ContentType |-> content_type]]
    IN  IF Raised(outcome)
        THEN IF outcome.raised = "ClientError"
             THEN [raised |-> "no", ret |-> None, calls |-> <<call>>,
                   logs |-> <<LogRecord("ERROR", msg_error_uploading)>>]
             ELSE [raised |-> outcome.raised, ret |-> None, calls |-> <<call>>,
                   logs |-> <<>>]
        ELSE [raised |-> "no", ret |-> Some(key), calls |-> <<call>>,
              logs |-> <<LogRecord("INFO", msg_uploaded)>>]

---------------------------------------------------------------------------
(* analyze_own_logs *)

ERROR_WORD == <<"E","R","R","O","R">>
WARNING_WORD == <<"W","A","R","N","I","N","G">>
FINAL_MARKER == <<"F","I","N","A","L"," ","J","O","B"," ","S","U","M","M","A","R","Y">>

\* line 197
RECURSIVE Messages(_)
Messages(events) ==
    IF events = <<>> THEN <<>>
    ELSE <<Head(events).message>> \o Messages(Tail(events))

\* sum(1 for msg in log_messages if word in msg), lines 203-204
RECURSIVE CountContaining(_, _)
CountContaining(word, msgs) ==
    IF msgs = <<>> THEN 0
    ELSE (IF Contains(word, Head(msgs)) THEN 1 ELSE 0)
         + CountContaining(word, Tail(msgs))

\* any(word in msg for msg in log_messages), line 207
AnyContaining(word, msgs) == \E i \in 1..Len(msgs) : Contains(word, msgs[i])

\* lines 196-208
Analysis(events, now) ==
    LET log_messages == Messages(events)
    IN  [log_analysis_timestamp |-> Isoformat(now),
         total_log_events       |-> Len(events),
         error_count            |-> CountContaining(ERROR_WORD, log_messages),
         warning_count          |-> CountContaining(WARNING_WORD, log_messages),
         first_log_event        |-> IF events # <<>>
                                    THEN Some(events[Len(events)].message) ELSE None,
         last_log_event         |-> IF events # <<>>
                                    THEN Some(events[1].message) ELSE None,
         successful_completion  |-> AnyContaining(FINAL_MARKER, log_messages)]

NoStreamResult == [error |-> "No log stream found for self-analysis."]

\* str(e) of the ClientError caught at line 212
ErrorResult == [error |-> "An error occurred when calling the operation"]

\* the handler raising the error again after logging it
AnalysisFailedRaisingAgain(raised, made) ==
    [raised |-> raised, ret |-> ErrorResult, calls |-> made,
     logs |-> <<LogRecord("ERROR", msg_error_self_analysis)>>]

\* lines 212-214
AnalysisFailed(raised, made) ==
    IF raised = "ClientError"
    THEN [raised |-> "no", ret |-> ErrorResult, calls |-> made,
          logs |-> <<LogRecord("ERROR", msg_error_self_analysis)>>]
    ELSE [raised |-> raised, ret |-> ErrorResult, calls |-> made, logs |-> <<>>]

\* a lookup that finds no stream treated as a stream with no events
analyze_own_logs_no_stream_as_empty(job_id, streams, fetched, now) ==
    LET lookup == [api |-> "describe_log_streams", arg |-> job_id,
                   ok |-> ~Raised(streams)]
    IN  IF Raised(streams) THEN AnalysisFailed(streams.raised, <<lookup>>)
        ELSE IF streams.response.logStreams = <<>>
        THEN [raised |-> "no", ret |-> Analysis(<<>>, now), calls |-> <<lookup>>,
              logs |-> <<>>]
        ELSE LET log_stream_name == streams.response.logStreams[1].logStreamName
                 fetch == [api |-> "get_log_events", arg |-> log_stream_name,
                           ok |-> ~Raised(fetched), outcome |-> fetched]
                 found == LogRecord("INFO", msg_found_stream)
             IN  IF Raised(fetched)
                 THEN LET f == AnalysisFailed(fetched.raised, <<lookup, fetch>>)
                      IN  [f EXCEPT !.logs = <<found>> \o @]
                 ELSE [raised |-> "no",
                       ret    |-> Analysis(fetched.response.events, now),
                       calls  |-> <<lookup, fetch>>,
                       logs   |-> <<found>>]

\* streams answers describe_log_streams, fetched answers get_log_events
analyze_own_logs(job_id, streams, fetched, now) ==
    LET lookup == [api |-> "describe_log_streams", arg |-> job_id,
                   ok |-> ~Raised(streams)]
    IN  IF Raised(streams) THEN AnalysisFailed(streams.raised, <<lookup>>)
        ELSE IF streams.response.logStreams = <<>>
        THEN [raised |-> "no", ret |-> NoStreamResult, calls |-> <<lookup>>,
              logs |-> <<>>]
        ELSE LET log_stream_name == streams.response.logStreams[1].logStreamName
                 fetch == [api |-> "get_log_events", arg |-> log_stream_name,
                           ok |-> ~Raised(fetched), outcome |-> fetched]
                 found == LogRecord("INFO", msg_found_stream)
             IN  IF Raised(fetched)
                 THEN LET f == AnalysisFailed(fetched.raised, <<lookup, fetch>>)
                      IN  [f EXCEPT !.logs = <<found>> \o @]
                 ELSE [raised |-> "no",
                       ret    |-> Analysis(fetched.response.events, now),
                       calls  |-> <<lookup, fetch>>,
                       logs   |-> <<found>>]

---------------------------------------------------------------------------
(* Inputs: what the provider may hold and answer. *)

PRIVATE_CIDR == <<"1","0",".","0",".","0",".","0","/","8">>
ZERO_NET_CIDR == <<"0",".","0",".","0",".","0","/","8">>

\* r with key k bound to v
With(r, k, v) == (k :> v) @@ r

\* security-group rules as describe_security_group_rules reports them: the
\* protocol always, the port and the IPv4 range when the rule has one
RuleSet ==
    LET protos == {[IpProtocol |-> p] : p \in {"tcp", "udp"}}
        ported == protos \cup
                  {With(r, "FromPort", n) : r \in protos, n \in {22, 3389, 80}}
    IN  ported \cup
        {With(r, "CidrIpv4", c) : r \in ported,
                                  c \in {UNRESTRICTED, PRIVATE_CIDR, ZERO_NET_CIDR}}

RulesAnswer(rules) == Answer([SecurityGroupRules |-> rules])

GroupIds == {"sg-a", "sg-b"}

GroupRefs(ids) == [k \in 1..Len(ids) |-> [GroupId |-> ids[k]]]

SshOpen  == [IpProtocol |-> "tcp", FromPort |-> 22, CidrIpv4 |-> UNRESTRICTED]
RdpOpen  == [IpProtocol |-> "tcp", FromPort |-> 3389, CidrIpv4 |-> UNRESTRICTED]
HttpOpen == [IpProtocol |-> "tcp", FromPort |-> 80, CidrIpv4 |-> UNRESTRICTED]
SshPrivate == [IpProtocol |-> "tcp", FromPort |-> 22, CidrIpv4 |-> PRIVATE_CIDR]

\* outcomes of a rule query used where several groups are queried
SampleOutcomes ==
    {ClientError, RulesAnswer(<<>>), RulesAnswer(<<SshOpen, HttpOpen>>),
     RulesAnswer(<<SshPrivate>>), RulesAnswer(<<RdpOpen, SshPrivate, SshOpen>>)}

\* one group with every list of rules, and several groups with sample outcomes
SecurityGroupInputs(maxRules, maxGroups) ==
    {[fn |-> "check_security_groups",
      instance |-> [InstanceId |-> "i-1", SecurityGroups |-> GroupRefs(<<"sg-a">>)],
      outcomes |-> <<RulesAnswer(rules)>>] : rules \in SeqsUpTo(RuleSet, maxRules)}
    \cup
    UNION {{[fn |-> "check_security_groups",
             instance |-> [InstanceId |-> "i-1", SecurityGroups |-> GroupRefs(ids)],
             outcomes |-> outs] : outs \in [1..Len(ids) -> SampleOutcomes]}
           : ids \in SeqsUpTo(GroupIds, maxGroups)}
    \cup
    {[fn |-> "check_security_groups", instance |-> [InstanceId |-> "i-1"],
      outcomes |-> <<>>]}

DeviceList(n) == [k \in 1..n |-> [DeviceName |-> "/dev/sd", Index |-> k]]

InstanceTypes == free_tier_types \cup {"m5.large"}
StateNames == {"running", "stopped", "terminated"}

UtilizationInputs(maxDevices) ==
    LET bare == {[InstanceId |-> id, State |-> [Name |-> st], InstanceType |-> ty] :
                    id \in {"i-1", "i-2"}, st \in StateNames, ty \in InstanceTypes}
    IN  {[fn |-> "check_instance_utilization", instance |-> i] :
            i \in bare \cup {With(b, "BlockDeviceMappings", DeviceList(n)) :
                                b \in bare, n \in 0..maxDevices}}

\* instance identifiers; the provider lists an instance once, so the
\* identifiers of a listing are pairwise distinct
InstanceIds == {"i-1", "i-2", "i-3"}

InjectiveSeqs(S, n) ==
    {q \in SeqsUpTo(S, n) : \A a, b \in 1..Len(q) : a # b => q[a] # q[b]}

\* an instance of each kind with the outcomes of its rule queries
ReportOutcomes ==
    {ClientError, RulesAnswer(<<SshPrivate>>), RulesAnswer(<<RdpOpen, HttpOpen, SshOpen>>)}

AuditedInstances(id) ==
    {[instance |-> [InstanceId |-> id, State |-> [Name |-> "running"],
                    InstanceType |-> "t2.micro",
                    SecurityGroups |-> GroupRefs(<<"sg-a">>)],
      outcomes |-> <<o>>] : o \in ReportOutcomes}
    \cup
    {[instance |-> [InstanceId |-> id, State |-> [Name |-> "stopped"],
                    InstanceType |-> "m5.large",
                    BlockDeviceMappings |-> DeviceList(1),
                    SecurityGroups |-> GroupRefs(<<"sg-a", "sg-b">>)],
      outcomes |-> <<o1, o2>>] : o1 \in ReportOutcomes, o2 \in ReportOutcomes}
    \cup
    {[instance |-> [InstanceId |-> id, State |-> [Name |-> "running"],
                    InstanceType |-> "m5.large"],
      outcomes |-> <<>>]}

\* the listings of at most n instances, each with its query outcomes
AuditedListings(n) ==
    UNION {{a \in [1..Len(ids) -> UNION {AuditedInstances(id) : id \in InstanceIds}] :
              \A k \in 1..Len(ids) : a[k].instance.InstanceId = ids[k]}
           : ids \in InjectiveSeqs(InstanceIds, n)}

ReportInputs(maxInstances) ==
    {[fn |-> "generate_audit_report",
      instances |-> [k \in 1..Len(a) |-> a[k].instance],
      answers   |-> [k \in 1..Len(a) |-> a[k].outcomes],
      now       |-> Instants[1]] : a \in AuditedListings(maxInstances)}

report_json == <<"r","e","p","o","r","t",".","j","s","o","n">>
summary_md == <<"s","u","m","m","a","r","y",".","m","d">>
final_combined_report_json == <<"f","i","n","a","l","-","c","o","m","b","i","n","e","d","-","r","e","p","o","r","t",".","j","s","o","n">>
test_json == <<"t","e","s","t",".","j","s","o","n">>

PutAnswer == Answer([ETag |-> "etag"])

UploadInputs ==
    [fn : {"upload_to_s3"},
     content : {"{}", "# AWS EC2 Instance Audit Report"},
     key_suffix : {report_json, summary_md, final_combined_report_json, test_json},
     content_type : {"application/json", "text/markdown"},
     bucket_name : {"aws-batch-audit-reports", "test-bucket"},
     now : {Instants[k] : k \in 1..Len(Instants)},
     outcome : {ClientError, PutAnswer}]

\* texts of log events
EventPool ==
    {[message |-> m] :
        m \in {<<"I","N","F","O",":"," ","T","e","s","t"," ","m","e","s","s","a","g","e">>,
               <<"E","R","R","O","R",":"," ","T","e","s","t"," ","e","r","r","o","r">>,
               <<"W","A","R","N","I","N","G",":"," ","s","l","o","w">>,
               <<"F","I","N","A","L"," ","J","O","B"," ","S","U","M","M","A","R","Y",":"," ","{","}">>,
               <<"F","i","n","a","l"," ","j","o","b"," ","s","u","m","m","a","r","y">>}}

StreamsAnswers(job_id) ==
    {ClientError, Answer([logStreams |-> <<>>]),
     Answer([logStreams |-> <<[logStreamName |-> job_id]>>])}

EventsAnswers(n) ==
    {ClientError} \cup {Answer([events |-> e]) : e \in SeqsUpTo(EventPool, n)}

LogsInputs(maxEvents) ==
    [fn : {"analyze_own_logs"},
     job_id : {"local-test-job-id"},
     streams : StreamsAnswers("local-test-job-id"),
     fetched : EventsAnswers(maxEvents),
     now : {Instants[k] : k \in 1..Len(Instants)}]

---------------------------------------------------------------------------
(* Single calls of the functions. *)

NotCalled == [called |-> FALSE]
Returned(r) == [called |-> TRUE, result |-> r]

IdleMain ==
    /\ pc = "idle"
    /\ clock = 1
    /\ instances = <<>>
    /\ sg_answers = <<>>
    /\ audit_report = None
    /\ uploads = <<>>
    /\ log_analysis = None
    /\ final_report = None
    /\ calls = <<>>
    /\ stdout = <<>>
    /\ exit_code = None

InitSecurityGroups ==
    IdleMain /\ fn_in \in SecurityGroupInputs(MaxRules, MaxGroups) /\ fn_out = NotCalled

CallCheckSecurityGroups ==
    /\ fn_in.fn = "check_security_groups"
    /\ fn_out = NotCalled
    /\ fn_out' = Returned(check_security_groups(fn_in.instance, fn_in.outcomes))
    /\ UNCHANGED <<mainVars, fn_in>>

SpecSecurityGroups ==
    InitSecurityGroups /\ [][CallCheckSecurityGroups]_vars

InitUtilization ==
    IdleMain /\ fn_in \in UtilizationInputs(MaxDevices) /\ fn_out = NotCalled

CallCheckInstanceUtilization ==
    /\ fn_in.fn = "check_instance_utilization"
    /\ fn_out = NotCalled
    /\ fn_out' = Returned(check_instance_utilization(fn_in.instance))
    /\ UNCHANGED <<mainVars, fn_in>>

SpecUtilization ==
    InitUtilization /\ [][CallCheckInstanceUtilization]_vars

InitReport == IdleMain /\ fn_in \in ReportInputs(MaxInstances) /\ fn_out = NotCalled

CallGenerateAuditReport ==
    /\ fn_in.fn = "generate_audit_report"
    /\ fn_out = NotCalled
    /\ fn_out' = Returned(generate_audit_report(fn_in.instances, fn_in.answers, fn_in.now))
    /\ UNCHANGED <<mainVars, fn_in>>

SpecReport == InitReport /\ [][CallGenerateAuditReport]_vars

InitUpload == IdleMain /\ fn_in \in UploadInputs /\ fn_out = NotCalled

CallUploadToS3 ==
    /\ fn_in.fn = "upload_to_s3"
    /\ fn_out = NotCalled
    /\ fn_out' = Returned(upload_to_s3(fn_in.content, fn_in.key_suffix,
                                       fn_in.content_type, fn_in.bucket_name,
                                       fn_in.now, fn_in.outcome))
    /\ UNCHANGED <<mainVars, fn_in>>

SpecUpload == InitUpload /\ [][CallUploadToS3]_vars

InitLogs == IdleMain /\ fn_in \in LogsInputs(MaxEvents) /\ fn_out = NotCalled

CallAnalyzeOwnLogs ==
    /\ fn_in.fn = "analyze_own_logs"
    /\ fn_out = NotCalled
    /\ fn_out' = Returned(analyze_own_logs(fn_in.job_id, fn_in.streams,
                                           fn_in.fetched, fn_in.now))
    /\ UNCHANGED <<mainVars, fn_in>>

SpecLogs == InitLogs /\ [][CallAnalyzeOwnLogs]_vars

---------------------------------------------------------------------------
(* main *)

\* os.getenv with the variables unset: the defaults of lines 219-220
job_id == "local-test-job-id"
s3_bucket_name == "aws-batch-audit-reports"

\* json.dumps(x, indent=2): the text that writes x
JsonDumps(x) == [json_text_of |-> x]

\* lines 238-248
MarkdownReport(report) ==
    [lines |-> <<"# AWS EC2 Instance Audit Report",
                 <<"**Generated:** ", report.audit_timestamp>>,
                 <<"**Job ID:** ", job_id>>,
                 "",
                 "## Summary",
                 <<"- Total Instances: ", report.summary.total_instances>>,
                 <<"- Instances with Security Issues: ",
                   report.summary.instances_with_security_issues>>,
                 <<"- Instances with Utilization Issues: ",
                   report.summary.instances_with_utilization_issues>>>>]

\* the status decided by the presence of the key
StatusOfKeyPresent(analysis) ==
    IF HasKey(analysis, "successful_completion")
    THEN "SUCCESS" ELSE "ANALYSIS_COMPLETED_WITH_WARNINGS"

\* line 269
StatusOf(analysis) ==
    IF HasKey(analysis, "successful_completion") /\ analysis.successful_completion
    THEN "SUCCESS" ELSE "ANALYSIS_COMPLETED_WITH_WARNINGS"

\* lines 260-270
FinalReport(start_time, end_time, report, analysis) ==
    [job_id |-> job_id,
     execution_duration_seconds |-> end_time.epoch - start_time.epoch,
     audit_summary |-> report.summary,
     operational_metrics |-> [start_time   |-> IsoformatUtc(start_time),
                              end_time     |-> IsoformatUtc(end_time),
                              log_analysis |-> analysis],
     status |-> StatusOf(analysis)]

\* the instances a listing of the run may report
ListedInstances ==
    {[InstanceId |-> "i-1", State |-> [Name |-> "running"], InstanceType |-> "t2.micro",
      BlockDeviceMappings |-> DeviceList(1), SecurityGroups |-> GroupRefs(<<"sg-a">>)],
     [InstanceId |-> "i-2", State |-> [Name |-> "stopped"], InstanceType |-> "m5.large",
      BlockDeviceMappings |-> DeviceList(1),
      SecurityGroups |-> GroupRefs(<<"sg-a", "sg-b">>)],
     [InstanceId |-> "i-3", State |-> [Name |-> "running"], InstanceType |-> "m5.large"]}

\* answers of describe_instances: at most n instances, each in a reservation
\* of its own or all in one reservation
ListingAnswers(n) ==
    LET lists == InjectiveSeqs(ListedInstances, n)
    IN  {Answer([Reservations |-> [k \in 1..Len(l) |-> [Instances |-> <<l[k]>>]]]) :
            l \in lists}
        \cup {Answer([Reservations |-> <<[Instances |-> l]>>]) : l \in lists}

\* outcomes of a rule query of the run
RunRuleOutcomes == {ClientError, RulesAnswer(<<SshOpen, HttpOpen>>)}

\* for each instance of insts, an outcome for each of its rule queries
RuleOutcomesFor(insts) ==
    {a \in [1..Len(insts) -> SeqsUpTo(RunRuleOutcomes, MaxGroups)] :
        \A k \in 1..Len(insts) : Len(a[k]) = Len(SecurityGroupsOf(insts[k]))}

\* events the log stream of the run may hold
RunEventPool == {[message |-> msg_beginning], [message |-> msg_final_summary]}

RunEventsAnswers(n) ==
    {ClientError} \cup {Answer([events |-> e]) : e \in SeqsUpTo(RunEventPool, n)}

Init ==
    /\ pc = "start"
    /\ clock = 1
    /\ instances = <<>>
    /\ sg_answers = <<>>
    /\ audit_report = None
    /\ uploads = <<>>
    /\ log_analysis = None
    /\ final_report = None
    /\ calls = <<>>
    /\ stdout = <<>>
    /\ exit_code = None
    /\ fn_in = [fn |-> "main"]
    /\ fn_out = NotCalled

\* an exception that leaves main ends the process with a non-zero status
Crash ==
    /\ pc' = "crashed"
    /\ exit_code' = Some(1)

\* lines 218-227
StartJob ==
    /\ pc = "start"
    /\ pc' = "clients"
    /\ stdout' = stdout \o <<LogRecord("INFO", msg_starting),
                             LogRecord("INFO", msg_job_id),
                             LogRecord("INFO", msg_target_bucket),
                             LogRecord("INFO", msg_initializing)>>
    /\ UNCHANGED <<clock, instances, sg_answers, audit_report, uploads, log_analysis,
                   final_report, calls, exit_code, fnVars>>

\* line 230
ListInstances ==
    /\ pc = "clients"
    /\ \E outcome \in {ClientError} \cup ListingAnswers(MaxInstances) :
         LET r == get_ec2_instances(outcome)
         IN  /\ calls' = calls \o r.calls
             /\ stdout' = stdout \o r.logs
             /\ IF r.raised = "no"
                THEN /\ instances' = r.ret
                     /\ pc' = "listed"
                     /\ UNCHANGED exit_code
                ELSE Crash /\ UNCHANGED instances
    /\ UNCHANGED <<clock, sg_answers, audit_report, uploads, log_analysis,
                   final_report, fnVars>>

\* line 231
GenerateReport ==
    /\ pc = "listed"
    /\ \E answers \in RuleOutcomesFor(instances) :
         LET r == generate_audit_report(instances, answers, Instants[clock])
         IN  /\ sg_answers' = answers
             /\ calls' = calls \o r.calls
             /\ stdout' = stdout \o r.logs
             /\ IF r.raised = "no"
                THEN /\ audit_report' = Some(r.ret)
                     /\ pc' = "audited"
                     /\ UNCHANGED exit_code
                ELSE Crash /\ UNCHANGED audit_report
    /\ UNCHANGED <<clock, instances, uploads, log_analysis, final_report, fnVars>>

\* a call of upload_to_s3 whose None result ends the run
UploadOrAbort(from, to, content, key_suffix, content_type) ==
    /\ pc = from
    /\ \E outcome \in {ClientError, PutAnswer} :
         LET r == upload_to_s3(content, key_suffix, content_type, s3_bucket_name,
                               Instants[clock], outcome)
         IN  /\ calls' = calls \o r.calls
             /\ stdout' = stdout \o r.logs
             /\ IF r.raised = "no" /\ r.ret # None
                THEN /\ uploads' = Append(uploads, r.ret)
                     /\ pc' = to
                     /\ UNCHANGED exit_code
                ELSE Crash /\ UNCHANGED uploads

\* one call of upload_to_s3 from main: lines 235, 249 and 274
Upload(from, to, content, key_suffix, content_type) ==
    /\ pc = from
    /\ \E outcome \in {ClientError, PutAnswer} :
         LET r == upload_to_s3(content, key_suffix, content_type, s3_bucket_name,
                               Instants[clock], outcome)
         IN  /\ calls' = calls \o r.calls
             /\ stdout' = stdout \o r.logs
             /\ IF r.raised = "no"
                THEN /\ uploads' = Append(uploads, r.ret)
                     /\ pc' = to
                     /\ UNCHANGED exit_code
                ELSE Crash /\ UNCHANGED uploads

\* lines 234-235
UploadJson ==
    /\ Upload("audited", "json_uploaded", JsonDumps(audit_report[1]), report_json,
              "application/json")
    /\ UNCHANGED <<clock, instances, sg_answers, audit_report, log_analysis,
                   final_report, fnVars>>

\* lines 238-249
UploadMarkdown ==
    /\ Upload("json_uploaded", "markdown_uploaded", MarkdownReport(audit_report[1]),
              summary_md, "text/markdown")
    /\ UNCHANGED <<clock, instances, sg_answers, audit_report, log_analysis,
                   final_report, fnVars>>

\* lines 252-254; the clock moves on during time.sleep(5)
AnalyzeLogs ==
    /\ pc = "markdown_uploaded"
    /\ clock' = IF clock < Len(Instants) THEN clock + 1 ELSE clock
    /\ \E streams \in StreamsAnswers(job_id), fetched \in RunEventsAnswers(MaxEvents) :
         LET r == analyze_own_logs(job_id, streams, fetched, Instants[clock'])
         IN  /\ calls' = calls \o r.calls
             /\ stdout' = stdout \o <<LogRecord("INFO", msg_beginning)>> \o r.logs
             /\ IF r.raised = "no"
                THEN /\ log_analysis' = Some(r.ret)
                     /\ pc' = "analyzed"
                     /\ UNCHANGED exit_code
                ELSE Crash /\ UNCHANGED log_analysis
    /\ UNCHANGED <<instances, sg_answers, audit_report, uploads, final_report, fnVars>>

\* lines 257-270
AssembleFinalReport ==
    /\ pc = "analyzed"
    /\ final_report' = Some(FinalReport(Instants[1], Instants[clock],
                                        audit_report[1], log_analysis[1]))
    /\ pc' = "assembled"
    /\ UNCHANGED <<clock, instances, sg_answers, audit_report, uploads, log_analysis,
                   calls, stdout, exit_code, fnVars>>

\* lines 273-274
UploadFinal ==
    /\ Upload("assembled", "final_uploaded", JsonDumps(final_report[1]),
              final_combined_report_json, "application/json")
    /\ UNCHANGED <<clock, instances, sg_answers, audit_report, log_analysis,
                   final_report, fnVars>>

\* lines 277-278
LogFinalSummary ==
    /\ pc = "final_uploaded"
    /\ stdout' = stdout \o <<LogRecord("INFO", msg_final_summary),
                             LogRecord("INFO", msg_finished)>>
    /\ pc' = "summarised"
    /\ UNCHANGED <<clock, instances, sg_answers, audit_report, uploads, log_analysis,
                   final_report, calls, exit_code, fnVars>>

\* line 281
Exit ==
    /\ pc = "summarised"
    /\ exit_code' = Some(0)
    /\ pc' = "exited"
    /\ UNCHANGED <<clock, instances, sg_answers, audit_report, uploads, log_analysis,
                   final_report, calls, stdout, fnVars>>

Next ==
    \/ StartJob
    \/ ListInstances
    \/ GenerateReport
    \/ UploadJson
    \/ UploadMarkdown
    \/ AnalyzeLogs
    \/ AssembleFinalReport
    \/ UploadFinal
    \/ LogFinalSummary
    \/ Exit

Spec == Init /\ [][Next]_vars

\* the process is scheduled until it ends
FairSpec == Spec /\ WF_vars(Next)

---------------------------------------------------------------------------
(* main with a log stream that holds what the run itself has logged. *)

\* %(asctime)s of logging: YYYY-MM-DD HH:MM:SS,mmm
Asctime(t) ==
    Pad4(t.year) \o <<"-">> \o Pad2(t.month) \o <<"-">> \o Pad2(t.day) \o <<" ">>
    \o Pad2(t.hour) \o <<":">> \o Pad2(t.minute) \o <<":">> \o Pad2(t.second)
    \o <<",","0","0","0">>

\* %(levelname)s
LevelText(level) ==
    IF level = "ERROR" THEN <<"E","R","R","O","R">> ELSE <<"I","N","F","O">>

\* the format of line 25: asctime - name - levelname - message
FormatLine(record, asctime) ==
    asctime \o <<" ","-"," ","_","_","m","a","i","n","_","_"," ","-"," ">>
    \o LevelText(record.levelname) \o <<" ","-"," ">> \o record.message

\* the records logged with the summary of line 277 moved before the analysis
LoggedBeforeFetchWithSummary ==
    stdout \o <<LogRecord("INFO", msg_final_summary),
                LogRecord("INFO", msg_beginning),
                LogRecord("INFO", msg_found_stream)>>

\* the records the run has logged when it calls get_log_events: those of
\* stdout, then lines 252 and 187
LoggedBeforeFetch ==
    stdout \o <<LogRecord("INFO", msg_beginning), LogRecord("INFO", msg_found_stream)>>

\* the stream as the logging service holds it then: the lines written so far
OwnStream ==
    LET asctime == Asctime(Instants[1])
    IN  [k \in 1..Len(LoggedBeforeFetch) |->
            [message |-> FormatLine(LoggedBeforeFetch[k], asctime)]]

\* the runs of at most n consecutive events of a stream
Windows(stream, n) ==
    {[k \in 1..w[2] |-> stream[w[1] + k]] :
        w \in {v \in (0..Len(stream)) \X (0..n) : v[1] + v[2] <= Len(stream)}}

\* lines 252-254 when the stream of the job holds only events of this run:
\* the fetch answers with events the service has ingested so far
AnalyzeOwnStream ==
    /\ pc = "markdown_uploaded"
    /\ clock' = IF clock < Len(Instants) THEN clock + 1 ELSE clock
    /\ \E streams \in StreamsAnswers(job_id),
          fetched \in {ClientError}
                      \cup {Answer([events |-> e]) : e \in Windows(OwnStream, MaxEvents)} :
         LET r == analyze_own_logs(job_id, streams, fetched, Instants[clock'])
         IN  /\ calls' = calls \o r.calls
             /\ stdout' = stdout \o <<LogRecord("INFO", msg_beginning)>> \o r.logs
             /\ IF r.raised = "no"
                THEN /\ log_analysis' = Some(r.ret)
                     /\ pc' = "analyzed"
                     /\ UNCHANGED exit_code
                ELSE Crash /\ UNCHANGED log_analysis
    /\ UNCHANGED <<instances, sg_answers, audit_report, uploads, final_report, fnVars>>

NextOwnStream ==
    \/ StartJob
    \/ ListInstances
    \/ GenerateReport
    \/ UploadJson
    \/ UploadMarkdown
    \/ AnalyzeOwnStream
    \/ AssembleFinalReport
    \/ UploadFinal
    \/ LogFinalSummary
    \/ Exit

SpecOwnStream == Init /\ [][NextOwnStream]_vars

---------------------------------------------------------------------------
(* Properties of check_security_groups. *)

\* the prefix length of an IPv4 range written a.b.c.d/n is the text after "/"
PrefixLengthText(cidr) ==
    LET slash == CHOOSE i \in 1..Len(cidr) : cidr[i] = "/"
    IN  SubSeq(cidr, slash + 1, Len(cidr))

\* a range includes 0.0.0.0/0 when it is the whole address space
IncludesEverySource(rule) ==
    HasKey(rule, "CidrIpv4") /\ PrefixLengthText(rule.CidrIpv4) = <<"0">>

IsRemoteAccessRule(rule) ==
    /\ rule.IpProtocol = "tcp"
    /\ HasKey(rule, "FromPort") /\ (rule.FromPort = 22 \/ rule.FromPort = 3389)
    /\ IncludesEverySource(rule)

\* one finding for each rule of the list that is a remote-access rule
FindingsOf(sg_id, rules) ==
    LET hits == SelectSeq(rules, IsRemoteAccessRule)
    IN  [j \in 1..Len(hits) |->
            [SecurityGroupId |-> sg_id, Port |-> hits[j].FromPort,
             Protocol |-> "tcp", CIDR |-> Some(hits[j].CidrIpv4)]]

\* C4: check_security_groups emits a finding for a rule exactly when the rule
\* is tcp, its port is 22 or 3389 and its source range includes 0.0.0.0/0;
\* each such rule gives exactly one finding and any other rule gives none.
C4_FindingIffRemoteAccessRule ==
    (fn_out.called /\ fn_in.fn = "check_security_groups"
        /\ Len(SecurityGroupsOf(fn_in.instance)) = 1
        /\ ~Raised(fn_in.outcomes[1]))
    => fn_out.result.ret =
         FindingsOf(fn_in.instance.SecurityGroups[1].GroupId,
                    fn_in.outcomes[1].response.SecurityGroupRules)

\* a call that saw a rule of each kind: flagged, wrong port, restricted range
C4_Witness ==
    /\ fn_out.called /\ fn_in.fn = "check_security_groups"
    /\ Len(SecurityGroupsOf(fn_in.instance)) = 1
    /\ fn_in.outcomes[1] \in
         {RulesAnswer(<<SshOpen, HttpOpen>>), RulesAnswer(<<SshPrivate, RdpOpen>>)}
    /\ Len(fn_out.result.ret) = 1

\* the findings of the groups whose query was answered, in group order
RECURSIVE FindingsInQueryOrder(_, _, _)
FindingsInQueryOrder(groups, outcomes, k) ==
    IF k > Len(groups) THEN <<>>
    ELSE (IF Raised(outcomes[k]) THEN <<>>
          ELSE FindingsOf(groups[k].GroupId,
                          outcomes[k].response.SecurityGroupRules))
         \o FindingsInQueryOrder(groups, outcomes, k + 1)

\* C10: a provider error on one group's rule query drops only that group: it
\* adds no finding, every group is still queried once in order, and the
\* findings of the other groups are returned concatenated in query order.
C10_FailedGroupOnlyIsDropped ==
    (fn_out.called /\ fn_in.fn = "check_security_groups")
    => LET groups == SecurityGroupsOf(fn_in.instance)
           made   == fn_out.result.calls
       IN  /\ fn_out.result.raised = "no"
           /\ Len(made) = Len(groups)
           /\ \A k \in 1..Len(groups) :
                /\ made[k].api = "describe_security_group_rules"
                /\ made[k].arg = groups[k].GroupId
                /\ made[k].ok = ~Raised(fn_in.outcomes[k])
           /\ fn_out.result.ret = FindingsInQueryOrder(groups, fn_in.outcomes, 1)

\* the first group's query failed and the second group's finding is returned
C10_Witness ==
    /\ fn_out.called /\ fn_in.fn = "check_security_groups"
    /\ Len(SecurityGroupsOf(fn_in.instance)) = 2
    /\ Raised(fn_in.outcomes[1])
    /\ ~Raised(fn_in.outcomes[2])
    /\ Len(fn_out.result.calls) = 2
    /\ Len(fn_out.result.ret) = 2
    /\ fn_out.result.ret[1].SecurityGroupId = fn_in.instance.SecurityGroups[2].GroupId

---------------------------------------------------------------------------
(* Properties of check_instance_utilization. *)

IssuesOfKind(issues, kind) ==
    Cardinality({j \in 1..Len(issues) : issues[j].issue = kind})

HasBlockStorage(instance) ==
    HasKey(instance, "BlockDeviceMappings") /\ Len(instance.BlockDeviceMappings) >= 1

\* C5: a stopped instance with block storage gets exactly one STOPPED_INSTANCE
\* finding and no NON_FREE_TIER_TYPE finding; a running instance of a type
\* outside the three free-tier types gets exactly one NON_FREE_TIER_TYPE
\* finding; a running free-tier instance with no block storage gets none.
C5_UtilizationFindings ==
    (fn_out.called /\ fn_in.fn = "check_instance_utilization")
    => LET i   == fn_in.instance
           ret == fn_out.result
       IN  /\ (i.State.Name = "stopped" /\ HasBlockStorage(i))
                => /\ IssuesOfKind(ret, "STOPPED_INSTANCE") = 1
                   /\ IssuesOfKind(ret, "NON_FREE_TIER_TYPE") = 0
           /\ (i.State.Name = "running"
                 /\ i.InstanceType \notin {"t2.micro", "t3.micro", "t4g.micro"})
                => IssuesOfKind(ret, "NON_FREE_TIER_TYPE") = 1
           /\ (i.State.Name = "running"
                 /\ i.InstanceType \in {"t2.micro", "t3.micro", "t4g.micro"}
                 /\ ~HasBlockStorage(i))
                => ret = <<>>

\* a stopped instance of a costly type, with block storage, was evaluated
C5_Witness ==
    /\ fn_out.called /\ fn_in.fn = "check_instance_utilization"
    /\ fn_in.instance.State.Name = "stopped"
    /\ HasBlockStorage(fn_in.instance)
    /\ fn_in.instance.InstanceType = "m5.large"
    /\ Len(fn_out.result) = 1

---------------------------------------------------------------------------
(* Properties of generate_audit_report. *)

\* the distinct instance identifiers of a findings list
InstancesIn(entries) == {entries[j].instance_id : j \in 1..Len(entries)}

RECURSIVE TotalIssues(_)
TotalIssues(entries) ==
    IF entries = <<>> THEN 0
    ELSE Len(Head(entries).issues) + TotalIssues(Tail(entries))

\* C3: after generate_audit_report, each category's summary counter equals
\* the number of distinct instance identifiers in that category's findings
\* list; an instance with several findings in a category counts once.
C3_CountersCountInstances ==
    (fn_out.called /\ fn_in.fn = "generate_audit_report")
    => LET report == fn_out.result.ret
       IN  /\ report.summary.instances_with_security_issues
                = Cardinality(InstancesIn(report.findings.security_issues))
           /\ report.summary.instances_with_utilization_issues
                = Cardinality(InstancesIn(report.findings.utilization_issues))
           /\ report.summary.total_instances = Len(fn_in.instances)

\* two instances were audited, one of them with several security findings:
\* the counter is below the number of findings
C3_Witness ==
    /\ fn_out.called /\ fn_in.fn = "generate_audit_report"
    /\ Len(fn_in.instances) = 2
    /\ fn_out.result.ret.summary.instances_with_security_issues = 2
    /\ TotalIssues(fn_out.result.ret.findings.security_issues) = 6
    /\ fn_out.result.ret.summary.instances_with_utilization_issues = 1

---------------------------------------------------------------------------
(* Properties of analyze_own_logs. *)

Counters == {"total_log_events", "error_count", "warning_count"}

ErrorShaped(result) == HasKey(result, "error") /\ DOMAIN result \cap Counters = {}

CallsTo(made, api) == Cardinality({j \in 1..Len(made) : made[j].api = api})

\* C6: analyze_own_logs never raises on a missing stream or a provider error:
\* with no matching stream, or when the lookup or the fetch fails, the result
\* has an 'error' key and none of the counters; with no matching stream the
\* events are not fetched.
C6_ErrorShapedResult ==
    (fn_out.called /\ fn_in.fn = "analyze_own_logs")
    => LET r        == fn_out.result
           noStream == ~Raised(fn_in.streams) /\ fn_in.streams.response.logStreams = <<>>
       IN  /\ r.raised = "no"
           /\ (Raised(fn_in.streams) \/ noStream \/ Raised(fn_in.fetched))
                => ErrorShaped(r.ret)
           /\ noStream => CallsTo(r.calls, "get_log_events") = 0
           /\ (~Raised(fn_in.streams) /\ ~noStream)
                => CallsTo(r.calls, "get_log_events") = 1

\* the lookup found no stream and the call returned after the lookup alone
C6_Witness ==
    /\ fn_out.called /\ fn_in.fn = "analyze_own_logs"
    /\ ~Raised(fn_in.streams) /\ fn_in.streams.response.logStreams = <<>>
    /\ ~Raised(fn_in.fetched)
    /\ ErrorShaped(fn_out.result.ret)
    /\ Len(fn_out.result.calls) = 1

---------------------------------------------------------------------------
(* Properties of upload_to_s3. *)

IsDigit(c) == c \in {"0", "1", "2", "3", "4", "5", "6", "7", "8", "9"}

DigitValue(c) == CHOOSE d \in 0..9 : Digits[d + 1] = c

\* the number a run of decimal digits writes
RECURSIVE Number(_)
Number(ds) ==
    IF ds = <<>> THEN 0
    ELSE 10 * Number(SubSeq(ds, 1, Len(ds) - 1)) + DigitValue(ds[Len(ds)])

\* ts is YYYYMMDD-HHMMSS and writes the instant t
WritesInstant(ts, t) ==
    /\ Len(ts) = 15
    /\ \A j \in (1..8) \cup (10..15) : IsDigit(ts[j])
    /\ ts[9] = "-"
    /\ Number(SubSeq(ts, 1, 4)) = t.year
    /\ Number(SubSeq(ts, 5, 6)) = t.month
    /\ Number(SubSeq(ts, 7, 8)) = t.day
    /\ Number(SubSeq(ts, 10, 11)) = t.hour
    /\ Number(SubSeq(ts, 12, 13)) = t.minute
    /\ Number(SubSeq(ts, 14, 15)) = t.second

\* key is audit-reports/ec2-audit-<timestamp of t>-<suffix>
WellFormedKey(key, t, suffix) ==
    LET head == <<"a","u","d","i","t","-","r","e","p","o","r","t","s","/",
                  "e","c","2","-","a","u","d","i","t","-">>
    IN  /\ Len(key) = Len(head) + 15 + 1 + Len(suffix)
        /\ SubSeq(key, 1, Len(head)) = head
        /\ WritesInstant(SubSeq(key, Len(head) + 1, Len(head) + 15), t)
        /\ key[Len(head) + 16] = "-"
        /\ SubSeq(key, Len(head) + 17, Len(key)) = suffix

\* C8: upload_to_s3 makes exactly one object-store write per call; it returns
\* the key audit-reports/ec2-audit-<timestamp>-<suffix> when the write
\* succeeds and None, without raising, when the write fails.
C8_OneWriteKeyOrNone ==
    (fn_out.called /\ fn_in.fn = "upload_to_s3")
    => LET r == fn_out.result
       IN  /\ r.raised = "no"
           /\ Len(r.calls) = 1
           /\ r.calls[1].api = "put_object"
           /\ WellFormedKey(r.calls[1].arg.Key, fn_in.now, fn_in.key_suffix)
           /\ ~Raised(fn_in.outcome) => r.ret = Some(r.calls[1].arg.Key)
           /\ Raised(fn_in.outcome) => r.ret = None

\* a write that failed: the call returned None after its one write
C8_Witness ==
    /\ fn_out.called /\ fn_in.fn = "upload_to_s3"
    /\ Raised(fn_in.outcome)
    /\ fn_out.result.ret = None
    /\ Len(fn_out.result.calls) = 1

---------------------------------------------------------------------------
(* Properties of main. *)

FailedCalls(api) ==
    {k \in 1..Len(calls) : calls[k].api = api /\ ~calls[k].ok}

\* C1: whatever provider calls fail (the listing, any rule query, any of the
\* three uploads, the stream lookup, the event fetch), the run reaches its
\* end and exits with status 0; no failure aborts it or gives another status.
C1_RunEndsWithExitZero ==
    /\ <>(pc = "exited" /\ exit_code = Some(0))
    /\ [](pc # "crashed" /\ exit_code \in {None, Some(0)})

\* a run that ended after a failed rule query, three failed uploads and a
\* failed event fetch
C1_Witness ==
    /\ pc = "exited" /\ exit_code = Some(0)
    /\ FailedCalls("describe_security_group_rules") # {}
    /\ Cardinality(FailedCalls("put_object")) = 3
    /\ FailedCalls("get_log_events") # {}

PositionsOf(api) == {k \in 1..Len(calls) : calls[k].api = api}

EndsWith(text, suffix) ==
    /\ Len(text) >= Len(suffix)
    /\ SubSeq(text, Len(text) - Len(suffix) + 1, Len(text)) = suffix

\* the number of uploads attempted when main is at a position
UploadsAttemptedAt(position) ==
    CASE position \in {"start", "clients", "listed", "audited"} -> 0
      [] position = "json_uploaded" -> 1
      [] position \in {"markdown_uploaded", "analyzed", "assembled"} -> 2
      [] position \in {"final_uploaded", "summarised", "exited"} -> 3
      [] OTHER -> -1

\* C2: in every run upload_to_s3 is attempted exactly three times, for
\* report.json, summary.md and final-combined-report.json in this order; the
\* self-log analysis comes after the first two attempts and before the third;
\* a failed upload (None) never keeps a later step or upload from happening.
C2_ThreeUploadsInOrder ==
    LET puts    == SelectSeq(calls, LAMBDA c : c.api = "put_object")
        lookups == PositionsOf("describe_log_streams")
        written == PositionsOf("put_object")
        names   == <<"r","e","p","o","r","t",".","j","s","o","n">>
        summary == <<"s","u","m","m","a","r","y",".","m","d">>
        final   == <<"f","i","n","a","l","-","c","o","m","b","i","n","e","d","-",
                     "r","e","p","o","r","t",".","j","s","o","n">>
        suffix  == <<names, summary, final>>
    IN  /\ Len(puts) = UploadsAttemptedAt(pc)
        /\ Len(uploads) = Len(puts)
        /\ \A k \in 1..Len(puts) :
             /\ EndsWith(puts[k].arg.Key, <<"-">> \o suffix[k])
             /\ uploads[k] = (IF puts[k].ok THEN Some(puts[k].arg.Key) ELSE None)
        /\ Cardinality(lookups) = (IF pc \in {"analyzed", "assembled", "final_uploaded",
                                              "summarised", "exited"} THEN 1 ELSE 0)
        /\ \A l \in lookups :
             /\ Cardinality({w \in written : w < l}) = 2
             /\ Cardinality({w \in written : w > l}) = Len(puts) - 2
        /\ pc # "exited" => ENABLED Next

\* a run that ended although each of its three uploads returned None
C2_Witness ==
    /\ pc = "exited"
    /\ uploads = <<None, None, None>>
    /\ Cardinality(PositionsOf("put_object")) = 3
    /\ Cardinality(PositionsOf("describe_log_streams")) = 1

\* the text holds the words FINAL JOB SUMMARY
HoldsMarker(text) ==
    LET marker == <<"F","I","N","A","L"," ","J","O","B"," ","S","U","M","M","A","R","Y">>
    IN  \E at \in 0..(Len(text) - Len(marker)) :
            \A j \in 1..Len(marker) : text[at + j] = marker[j]

\* some event that the run fetched holds the marker
MarkerWasFetched ==
    \E k \in 1..Len(calls) :
        /\ calls[k].api = "get_log_events"
        /\ calls[k].ok
        /\ \E e \in 1..Len(calls[k].outcome.response.events) :
               HoldsMarker(calls[k].outcome.response.events[e].message)

\* C7: the final report's status is SUCCESS exactly when the log analysis
\* reports successful completion, that is when some fetched event holds
\* 'FINAL JOB SUMMARY'; otherwise, an error-shaped analysis included, it is
\* ANALYSIS_COMPLETED_WITH_WARNINGS, and the run still ends normally.
C7_StatusFollowsMarker ==
    /\ final_report # None =>
         /\ final_report[1].status = "SUCCESS" <=> MarkerWasFetched
         /\ final_report[1].status \in {"SUCCESS", "ANALYSIS_COMPLETED_WITH_WARNINGS"}
         /\ HasKey(log_analysis[1], "error")
              => final_report[1].status = "ANALYSIS_COMPLETED_WITH_WARNINGS"
         /\ final_report[1].operational_metrics.log_analysis = log_analysis[1]
    /\ pc \in {"analyzed"} => ENABLED AssembleFinalReport
    /\ pc # "crashed"
    /\ pc = "exited" => (final_report # None /\ exit_code = Some(0))

\* a run that ended with an error-shaped analysis and the degraded status
C7_Witness ==
    /\ pc = "exited" /\ exit_code = Some(0)
    /\ HasKey(log_analysis[1], "error")
    /\ final_report[1].status = "ANALYSIS_COMPLETED_WITH_WARNINGS"

ListingFailed == FailedCalls("describe_instances") # {}

\* the report of an audit that saw no instance, built at instant t
ReportOfNothing(t) ==
    [audit_timestamp |-> Isoformat(t),
     findings |-> [security_issues |-> <<>>, utilization_issues |-> <<>>],
     summary  |-> [total_instances |-> 0,
                   instances_with_security_issues |-> 0,
                   instances_with_utilization_issues |-> 0]]

\* C9: when the listing call fails, get_ec2_instances returns the empty list
\* and the run continues: the audit report has total_instances 0 and empty
\* findings, exactly as after a listing that succeeded and found nothing.
C9_FailedListingIsEmptyListing ==
    /\ ListingFailed =>
         /\ instances = <<>>
         /\ pc # "crashed"
         /\ pc # "exited" => ENABLED Next
    /\ (pc \notin {"start", "clients", "listed", "crashed"} /\ instances = <<>>)
         => /\ audit_report = Some(ReportOfNothing(Instants[1]))
            /\ PositionsOf("describe_security_group_rules") = {}

\* a run whose listing failed and that went on to its end with an empty report
C9_Witness ==
    /\ ListingFailed
    /\ pc = "exited"
    /\ audit_report[1].summary.total_instances = 0
    /\ final_report[1].audit_summary.total_instances = 0

---------------------------------------------------------------------------
(* Properties of main over its own log stream. *)

\* the positions of stdout whose line holds the marker
SummaryLines ==
    LET asctime == Asctime(Instants[1])
    IN  {k \in 1..Len(stdout) : HoldsMarker(FormatLine(stdout[k], asctime))}

\* C11: the 'FINAL JOB SUMMARY' line is logged only after analyze_own_logs
\* has returned and the status has been computed; so when the log stream
\* holds only events of the same run, the analysis never sees the marker and
\* the final status is never SUCCESS.
C11_SummaryLoggedAfterAnalysis ==
    /\ IF pc \in {"summarised", "exited"}
       THEN SummaryLines # {} /\ log_analysis # None /\ final_report # None
       ELSE SummaryLines = {}
    /\ ~MarkerWasFetched
    /\ (log_analysis # None /\ HasKey(log_analysis[1], "successful_completion"))
         => ~log_analysis[1].successful_completion
    /\ final_report # None => final_report[1].status # "SUCCESS"

\* a run that fetched events of its own stream, logged the summary line and
\* ended with the degraded status
C11_Witness ==
    /\ pc = "exited"
    /\ SummaryLines # {}
    /\ \E k \in 1..Len(calls) :
         /\ calls[k].api = "get_log_events" /\ calls[k].ok
         /\ Len(calls[k].outcome.response.events) = 2
    /\ log_analysis[1].total_log_events = 2
    /\ final_report[1].status = "ANALYSIS_COMPLETED_WITH_WARNINGS"

=============================================================================
